---- MODULE Spec2Model ----
(***************************************************************************)
(* Model of main.py of daily-news-bot: one process run loads and prunes    *)
(* the history file, walks the configured RSS sources, deduplicates the    *)
(* capped entries of each feed against the history, hands the collected    *)
(* items to the summarizer, mails the digest to every recipient and saves  *)
(* the history.  The network, the feeds, the summarizer's answer, the SMTP *)
(* outcome and the content of the history file are inputs, drawn from      *)
(* small sets at the step of the code that reads them.                     *)
(***************************************************************************)
EXTENDS Integers, Sequences, FiniteSets, TLC

VARIABLES
    today,          \* datetime.now(), as a day number
    run,            \* number of the current process run
    file,           \* news_history.json on disk
    fileBefore,     \* the file as it was when the current run started
    pc,             \* position of the run in __main__ / fetch_data / send_email
    valid_history,  \* fetch_data: valid_history
    loaded,         \* valid_history as it was right after pruning
    collected,      \* fetch_data: collected
    origin,         \* for each collected item: the index of its source
    src,            \* index of the source the loop of line 96 is at
    feedLen,        \* len(feed.entries) of the feed being walked
    cursor,         \* position of the next entry of feed.entries[:limit]
    entry,          \* the entry examined by the last loop iteration
    last,           \* the source being walked, or how the last one ended
    failed,         \* sources whose fetch failed in this run
    report,         \* value returned by generate_newsletter
    receivers,      \* RECEIVER_EMAILS
    rcv,            \* index of the receiver the loop of line 268 is at
    attempted,      \* receivers an SMTP delivery was attempted for, in order
    delivered,      \* receivers whose delivery succeeded
    sendLog,        \* receivers for which line 283 printed a failure
    summarized,     \* generate_newsletter was called in this run
    seenAgain,      \* identifiers line 111 found in valid_history in this run
    saved           \* save_history was executed in this run

vars == <<today, run, file, fileBefore, pc, valid_history, loaded, collected,
          origin, src, feedLen, cursor, entry, last, failed, report,
          summarized, seenAgain, receivers, rcv, attempted, delivered, sendLog,
          saved>>

-----------------------------------------------------------------------------
(* Bounds of the model *)

MaxFeedLen == 4       \* longest feed a source returns
NumHardcore == 1      \* HARDCORE_AI sources taken from RSS_SOURCES
MaxRuns == 2          \* consecutive process runs
MaxDayStep == 3       \* most days between two consecutive runs
MaxRecipients == 2    \* most comma-separated parts of RECEIVER_EMAIL

(* Program constants *)

RetentionDays == 3
LimitHardcore == 3
LimitOther == 2
CleanCap == 600

Min(a, b) == IF a < b THEN a ELSE b

EmptyMap == [k \in {} |-> 0]

-----------------------------------------------------------------------------
(* Configuration: RSS_SOURCES, flattened in iteration order.  The code lists
   5, 3 and 1 URLs under its three categories; the model walks the first
   NumHardcore URLs of HARDCORE_AI and the first URL of each other category. *)

CategorySizes == <<Min(5, NumHardcore), Min(3, 1), Min(1, 1)>>
CategoryNames == <<"HARDCORE_AI", "COMMUNITY_BUZZ", "TECH_INSIGHTS">>

RSS_SOURCES ==
    [c \in 1..CategorySizes[1] |-> CategoryNames[1]]
    \o [c \in 1..CategorySizes[2] |-> CategoryNames[2]]
    \o [c \in 1..CategorySizes[3] |-> CategoryNames[3]]

NumSources == Len(RSS_SOURCES)

limit(category) == IF category = "HARDCORE_AI" THEN LimitHardcore ELSE LimitOther

-----------------------------------------------------------------------------
(* Identifiers and dates *)

URLs == {"u1", "u2", "u3"}

\* hashlib.md5(text).hexdigest(): a digest of the text, equal for equal texts
\* and (md5 collisions aside) different for different ones.
get_hash(text) == <<"md5", text>>

UIDs == {get_hash(u) : u \in URLs}

\* A date string of the history file: a "%Y-%m-%d" text of some day, or a text
\* strptime cannot parse.
strftime(day) == [valid |-> TRUE, day |-> day]
BadDate == [valid |-> FALSE, day |-> 0]
strptime(s) == s.day
Parsable(s) == s.valid

\* (datetime.now() - datetime.strptime(v, "%Y-%m-%d")).days: v parses to the
\* midnight that starts its day, so the whole-day difference is the difference
\* of the day numbers (a run is taken not to cross midnight between line 81
\* and line 85).
DaysSince(now, v) == now - strptime(v)

Keep(now, v) == DaysSince(now, v) < RetentionDays

-----------------------------------------------------------------------------
(* The history file and load_history *)

AbsentFile == [kind |-> "absent", map |-> EmptyMap]
GarbageFile == [kind |-> "garbage", map |-> EmptyMap]
ListFile == [kind |-> "list", map |-> EmptyMap]
MapFile(m) == [kind |-> "map", map |-> m]

\* json.load of the file, or {} when the file is absent or json.load raises.
\* A file holding JSON that is no object (a list) is returned as it is.
load_history(f) ==
    IF f.kind = "absent" THEN MapFile(EmptyMap)
    ELSE IF f.kind = "garbage" THEN MapFile(EmptyMap)
    ELSE f

\* Lines 84-85 raise when history has no items() or a value does not parse.
PruneRaises(history) ==
    \/ history.kind # "map"
    \/ \E k \in DOMAIN history.map : ~Parsable(history.map[k])

Prune(m, now) ==
    LET kept == {k \in DOMAIN m : Keep(now, m[k])}
    IN  [k \in kept |-> m[k]]

save_history(history) == MapFile(history)

-----------------------------------------------------------------------------
(* Feed entries and clean_text *)

Attrs == {"link", "title", "summary", "description", "content"}
NoLink == "none"

\* An entry as feedparser hands it over: the attributes it has, and its link.
Entries ==
    {[has |-> h, link |-> u] : h \in {x \in SUBSET Attrs : "link" \in x}, u \in URLs}
    \cup {[has |-> h, link |-> NoLink] : h \in {x \in SUBSET Attrs : "link" \notin x}}

hasattr(e, a) == a \in e.has

TextAttrs == {"summary", "description", "content"}

\* The entries whose only text attribute is a summary.
PlainEntries == {e \in Entries : e.has \cap TextAttrs = {"summary"}}

\* The entries with a title and one of two links, with any text attributes.
FieldEntries == {e \in Entries : "title" \in e.has /\ e.link \in {"u1", "u2"}}

\* The well-formed plain entries with one of two links.
MailEntries == PlainEntries \cap FieldEntries

\* Markup is a sequence of tokens, tags and pieces of text.
Tags == {"<p>", "</p>"}
SummaryText == <<"<p>", "s", "</p>">>
DescriptionText == <<"d">>
ContentText == <<"<p>", "c">>
TitleText == "title"

IsText(tok) == tok \notin Tags
get_text(html) == SelectSeq(html, IsText)
Take(s, n) == SubSeq(s, 1, Min(n, Len(s)))

clean_text(html_content) ==
    IF html_content = <<>> THEN <<>>
    ELSE Take(get_text(html_content), CleanCap) \o <<"...">>

\* Lines 114-120 with the summary attribute tested first.
summary_first(e) ==
    IF hasattr(e, "summary") THEN SummaryText
    ELSE IF hasattr(e, "description") THEN DescriptionText
    ELSE IF hasattr(e, "content") THEN ContentText
    ELSE <<>>

\* Lines 114-120: the raw text the summary of the item is made of.
content_raw(e) ==
    IF hasattr(e, "content") THEN ContentText
    ELSE IF hasattr(e, "summary") THEN SummaryText
    ELSE IF hasattr(e, "description") THEN DescriptionText
    ELSE <<>>

\* Lines 122-128 (the source label of the item is left out).
Item(category, e) ==
    [category |-> category, title |-> TitleText, url |-> e.link,
     summary |-> clean_text(content_raw(e))]

\* Line 111 without its test: nothing counts as seen.
SeenNever(uid, history) == FALSE

\* Line 111.
Seen(uid, history) == uid \in DOMAIN history

\* Line 112.
Record(history, uid, today_str) ==
    [k \in DOMAIN history \cup {uid} |-> IF k = uid THEN today_str ELSE history[k]]

-----------------------------------------------------------------------------
(* generate_newsletter.  The code fence of a markdown answer is written ''' here. *)

NoneReport == [none |-> TRUE, text |-> <<>>]

Fences == {"'''html", "'''"}
NotFence(tok) == tok \notin Fences

RECURSIVE lstrip(_)
lstrip(s) == IF s # <<>> /\ Head(s) = " " THEN lstrip(Tail(s)) ELSE s
RECURSIVE rstrip(_)
rstrip(s) ==
    IF s # <<>> /\ s[Len(s)] = " " THEN rstrip(SubSeq(s, 1, Len(s) - 1)) ELSE s
strip(s) == rstrip(lstrip(s))

\* What the chat completion answers: an exception, or a content.
ApiContents ==
    {<<>>, <<"'''html", " ", "'''">>, <<"'''html", "<div>", "'''", " ">>, <<"<div>">>}
ApiAnswers == {[raises |-> TRUE, content |-> <<>>]}
              \cup {[raises |-> FALSE, content |-> c] : c \in ApiContents}

\* Lines 187-201.
generate_newsletter(items, answer) ==
    IF items = <<>> THEN NoneReport
    ELSE IF answer.raises THEN NoneReport
    ELSE [none |-> FALSE, text |-> strip(SelectSeq(answer.content, NotFence))]

\* Line 290 as `if report is not None`.
ReportNotNone(r) == ~r.none

\* Python truth of `items` (a list) and of `report` (None or a string).
ItemsTruthy(items) == items # <<>>
ReportTruthy(r) == ~r.none /\ r.text # <<>>

-----------------------------------------------------------------------------
(* send_email *)

RawReceivers == {"a", " b", " ", ""}
ReceiverLists == UNION {[1..n -> RawReceivers] : n \in 1..MaxRecipients}

\* receiver.strip()
strip_receiver(r) == IF r = " b" THEN "b" ELSE IF r = " " THEN "" ELSE r

\* The loop of line 268 without the try block: a failed delivery ends the loop.
StopAfterSendFailure(i, n) == n + 1

\* The loop of line 268 after the delivery to receiver i raised: the except
\* clause prints and the loop goes on.
AfterSendFailure(i, n) == i + 1

-----------------------------------------------------------------------------
(* The loop over the sources, lines 94-130 *)

\* A failed fetch that ends the loop over the sources.
AbortAfterFetchFailure(s, n) == n + 1

\* The source the loop goes on with after the fetch of source s failed (the
\* `continue` of line 100, or the handler of line 129).
AfterFetchFailure(s, n) == s + 1

\* Whether a response whose status is not 200 is reported: line 100 skips the
\* source silently.
LogsStatus == FALSE

\* How lines 98-102 end: requests.get (or the parser) raises, the status is
\* not 200, or the feed is parsed.
Responses == {"transport_error", "status", "ok"}

-----------------------------------------------------------------------------
(* Initial state: the first run is about to start, on day 0 *)

InitDates ==
    {strftime(0 - RetentionDays - 1), strftime(0 - RetentionDays),
     strftime(1 - RetentionDays), strftime(0), BadDate}

InitMaps == UNION {[d -> InitDates] : d \in {{}, {get_hash("u1")}}}

InitFiles == {AbsentFile, GarbageFile, ListFile} \cup {MapFile(m) : m \in InitMaps}

NoEntry == [has |-> {}, link |-> NoLink]
\* How a source ended.  src: its index; how: "open" while its entries are
\* walked, then "ok" (loop exhausted), "raised" (an entry raised), "error"
\* (requests.get raised) or "status" (status_code is not 200); len:
\* len(feed.entries); examined: entries the loop reached; skipped: some entry
\* was skipped at line 111; logged: line 130 printed an error for it.
NoSource == [src |-> 0, how |-> "none", len |-> 0, examined |-> 0, skipped |-> FALSE,
             logged |-> FALSE]

\* The state of a process that has just been started.
Fresh ==
    [pc |-> "start",
     valid_history |-> EmptyMap,
     loaded |-> EmptyMap,
     collected |-> <<>>,
     origin |-> <<>>,
     src |-> 1,
     feedLen |-> 0,
     cursor |-> 1,
     entry |-> NoEntry,
     last |-> NoSource,
     failed |-> {},
     report |-> NoneReport,
     summarized |-> FALSE,
     seenAgain |-> {},
     receivers |-> <<>>,
     rcv |-> 1,
     attempted |-> <<>>,
     delivered |-> <<>>,
     sendLog |-> <<>>,
     saved |-> FALSE]

InitWith(files) ==
    /\ today = 0
    /\ run = 1
    /\ file \in files
    /\ fileBefore = file
    /\ pc = Fresh.pc
    /\ valid_history = Fresh.valid_history
    /\ loaded = Fresh.loaded
    /\ collected = Fresh.collected
    /\ origin = Fresh.origin
    /\ src = Fresh.src
    /\ feedLen = Fresh.feedLen
    /\ cursor = Fresh.cursor
    /\ entry = Fresh.entry
    /\ last = Fresh.last
    /\ failed = Fresh.failed
    /\ report = Fresh.report
    /\ summarized = Fresh.summarized
    /\ seenAgain = Fresh.seenAgain
    /\ receivers = Fresh.receivers
    /\ rcv = Fresh.rcv
    /\ attempted = Fresh.attempted
    /\ delivered = Fresh.delivered
    /\ sendLog = Fresh.sendLog
    /\ saved = Fresh.saved

Init == InitWith(InitFiles)
InitFields == InitWith({AbsentFile})
InitMail == InitWith(InitFiles)

-----------------------------------------------------------------------------
(* fetch_data *)

\* Lines 80-87: load the history and prune it.  A history that is no mapping,
\* or a date that does not parse, raises out of fetch_data and ends the run.
StartRun ==
    /\ pc = "start"
    /\ LET history == load_history(file) IN
         IF PruneRaises(history)
         THEN /\ pc' = "crashed"
              /\ UNCHANGED <<valid_history, loaded>>
         ELSE /\ valid_history' = Prune(history.map, today)
              /\ loaded' = Prune(history.map, today)
              /\ pc' = "fetch"
    /\ UNCHANGED <<today, run, file, fileBefore, failed, collected, origin, src, feedLen,
                   cursor, entry, last, report, summarized,
                   seenAgain, receivers, rcv, attempted, delivered, sendLog, saved>>

\* Lines 97-105: requests.get of source src.
FetchSource ==
    /\ pc = "fetch"
    /\ src <= NumSources
    /\ \E resp \in Responses :
         \/ /\ resp = "transport_error"
            /\ last' = [NoSource EXCEPT !.src = src, !.how = "error", !.logged = TRUE]
            /\ failed' = failed \cup {src}
            /\ src' = AfterFetchFailure(src, NumSources)
            /\ UNCHANGED <<pc, feedLen, cursor>>
         \/ /\ resp = "status"
            /\ last' = [NoSource EXCEPT !.src = src, !.how = "status",
                                        !.logged = LogsStatus]
            /\ failed' = failed \cup {src}
            /\ src' = AfterFetchFailure(src, NumSources)
            /\ UNCHANGED <<pc, feedLen, cursor>>
         \/ /\ resp = "ok"
            /\ \E n \in 0..MaxFeedLen :
                 /\ feedLen' = n
                 /\ last' = [NoSource EXCEPT !.src = src, !.how = "open", !.len = n]
            /\ cursor' = 1
            /\ pc' = "entries"
            /\ UNCHANGED <<src, failed>>
    /\ entry' = NoEntry
    /\ UNCHANGED <<today, run, file, fileBefore, valid_history, loaded, collected,
                   origin, report, summarized, seenAgain, receivers, rcv,
                   attempted, delivered, sendLog, saved>>

\* The handler of line 129 for an exception raised inside the entry loop, which
\* prints the error; the loop over the entries of this feed is left.
Raise ==
    /\ last' = [last EXCEPT !.how = "raised", !.examined = cursor, !.logged = TRUE]
    /\ src' = src + 1
    /\ pc' = "fetch"
    /\ cursor' = 1
    /\ feedLen' = 0

\* Lines 107-128: one iteration of the loop over feed.entries[:limit].
Examine(entries) ==
    /\ pc = "entries"
    /\ cursor <= Min(limit(RSS_SOURCES[src]), feedLen)
    /\ \E e \in entries :
         /\ entry' = e
         /\ IF ~hasattr(e, "link")
            THEN /\ Raise
                 /\ UNCHANGED <<valid_history, collected, origin, seenAgain>>
            ELSE LET uid == get_hash(e.link) IN
                 IF Seen(uid, valid_history)
                 THEN /\ cursor' = cursor + 1
                      /\ seenAgain' = seenAgain \cup {uid}
                      /\ last' = [last EXCEPT !.skipped = TRUE, !.examined = cursor]
                      /\ UNCHANGED <<valid_history, collected, origin, src, pc,
                                     feedLen>>
                 ELSE /\ valid_history' = Record(valid_history, uid, strftime(today))
                      /\ IF ~hasattr(e, "title")
                         THEN /\ Raise
                              /\ UNCHANGED <<collected, origin, seenAgain>>
                         ELSE /\ collected' = Append(collected, Item(RSS_SOURCES[src], e))
                              /\ origin' = Append(origin, src)
                              /\ cursor' = cursor + 1
                              /\ last' = [last EXCEPT !.examined = cursor]
                              /\ UNCHANGED <<seenAgain, src, pc, feedLen>>
    /\ UNCHANGED <<today, run, file, fileBefore, failed, loaded, report, summarized,
                   receivers, rcv, attempted, delivered, sendLog, saved>>

ExamineEntry == Examine(PlainEntries)
ExamineFieldEntry == Examine(FieldEntries)
ExamineMailEntry == Examine(MailEntries)

\* The loop over feed.entries[:limit] is exhausted: on to the next source.
EndSource ==
    /\ pc = "entries"
    /\ cursor > Min(limit(RSS_SOURCES[src]), feedLen)
    /\ last' = [last EXCEPT !.how = "ok"]
    /\ src' = src + 1
    /\ pc' = "fetch"
    /\ cursor' = 1
    /\ feedLen' = 0
    /\ entry' = NoEntry
    /\ UNCHANGED <<today, run, file, fileBefore, failed, valid_history, loaded, collected,
                   origin, report, summarized, seenAgain, receivers, rcv,
                   attempted, delivered, sendLog, saved>>

\* Line 132: return collected, valid_history.
Return ==
    /\ pc = "fetch"
    /\ src > NumSources
    /\ pc' = "returned"
    /\ entry' = NoEntry
    /\ last' = NoSource
    /\ UNCHANGED <<today, run, file, fileBefore, failed, valid_history, loaded, collected,
                   origin, src, feedLen, cursor, report,
                   summarized, seenAgain, receivers, rcv, attempted, delivered,
                   sendLog, saved>>

-----------------------------------------------------------------------------
(* __main__, lines 286-294 *)

\* Line 288 with no items: the else branch prints and the run ends.
NoNews ==
    /\ pc = "returned"
    /\ ~ItemsTruthy(collected)
    /\ pc' = "done"
    /\ UNCHANGED <<today, run, file, fileBefore, failed, valid_history, loaded, collected,
                   origin, src, feedLen, cursor, entry, last, report, summarized, seenAgain, receivers, rcv, attempted,
                   delivered, sendLog, saved>>

\* Lines 289-290: generate_newsletter(items), then the test of its result.
\* OpenAI(...) of line 145 is outside the try block: when it raises (no API
\* key) the run ends with the exception.
SummarizeFor(lists) ==
    /\ pc = "returned"
    /\ ItemsTruthy(collected)
    /\ summarized' = TRUE
    /\ \/ /\ pc' = "crashed"
          /\ UNCHANGED <<report, receivers>>
       \/ \E answer \in ApiAnswers :
            /\ report' = generate_newsletter(collected, answer)
            /\ IF ReportTruthy(report')
               THEN /\ pc' = "send"
                    /\ \E rs \in lists : receivers' = rs
               ELSE /\ pc' = "done"
                    /\ UNCHANGED receivers
    /\ UNCHANGED <<today, run, file, fileBefore, failed, valid_history, loaded, collected,
                   origin, src, feedLen, cursor, entry, last, seenAgain, rcv, attempted, delivered, sendLog, saved>>

Summarize == SummarizeFor({<<"a">>})
SummarizeAny == SummarizeFor(ReceiverLists)

\* Lines 268-283: one iteration of the loop over RECEIVER_EMAILS.
SendOne ==
    /\ pc = "send"
    /\ rcv <= Len(receivers)
    /\ LET r == strip_receiver(receivers[rcv]) IN
         IF r = ""
         THEN /\ rcv' = rcv + 1
              /\ UNCHANGED <<attempted, delivered, sendLog>>
         ELSE /\ attempted' = Append(attempted, r)
              /\ \/ /\ delivered' = Append(delivered, r)
                    /\ rcv' = rcv + 1
                    /\ UNCHANGED sendLog
                 \/ /\ sendLog' = Append(sendLog, r)
                    /\ rcv' = AfterSendFailure(rcv, Len(receivers))
                    /\ UNCHANGED delivered
    /\ UNCHANGED <<today, run, file, fileBefore, failed, pc, valid_history, loaded,
                   collected, origin, src, feedLen, cursor, entry, last, report, summarized, seenAgain, receivers, saved>>

\* Line 292: save_history(new_history), once send_email has returned.
Save ==
    /\ pc = "send"
    /\ rcv > Len(receivers)
    /\ file' = save_history(valid_history)
    /\ saved' = TRUE
    /\ pc' = "done"
    /\ UNCHANGED <<today, run, fileBefore, failed, valid_history, loaded, collected,
                   origin, src, feedLen, cursor, entry, last, report, summarized, seenAgain, receivers, rcv, attempted,
                   delivered, sendLog>>

\* The scheduler starts the next run, the same day or some days later.
NextRun ==
    /\ pc \in {"done", "crashed"}
    /\ run < MaxRuns
    /\ run' = run + 1
    /\ \E k \in 0..MaxDayStep : today' = today + k
    /\ fileBefore' = file
    /\ UNCHANGED file
    /\ pc' = Fresh.pc
    /\ valid_history' = Fresh.valid_history
    /\ loaded' = Fresh.loaded
    /\ collected' = Fresh.collected
    /\ origin' = Fresh.origin
    /\ src' = Fresh.src
    /\ feedLen' = Fresh.feedLen
    /\ cursor' = Fresh.cursor
    /\ entry' = Fresh.entry
    /\ last' = Fresh.last
    /\ failed' = Fresh.failed
    /\ report' = Fresh.report
    /\ summarized' = Fresh.summarized
    /\ seenAgain' = Fresh.seenAgain
    /\ receivers' = Fresh.receivers
    /\ rcv' = Fresh.rcv
    /\ attempted' = Fresh.attempted
    /\ delivered' = Fresh.delivered
    /\ sendLog' = Fresh.sendLog
    /\ saved' = Fresh.saved

Next ==
    \/ StartRun
    \/ FetchSource
    \/ ExamineEntry
    \/ EndSource
    \/ Return
    \/ NoNews
    \/ Summarize
    \/ SendOne
    \/ Save
    \/ NextRun

Spec == Init /\ [][Next]_vars

\* One run, from any of the initial history files.
NextOnce ==
    \/ StartRun
    \/ FetchSource
    \/ ExamineEntry
    \/ EndSource
    \/ Return
    \/ NoNews
    \/ Summarize
    \/ SendOne
    \/ Save

SpecRun == Init /\ [][NextOnce]_vars

\* One run over entries with every combination of text attributes.
NextFields ==
    \/ StartRun
    \/ FetchSource
    \/ ExamineFieldEntry
    \/ EndSource
    \/ Return
    \/ NoNews
    \/ Summarize
    \/ SendOne
    \/ Save

SpecFields == InitFields /\ [][NextFields]_vars

\* One run with every list of receivers.
NextMail ==
    \/ StartRun
    \/ FetchSource
    \/ ExamineMailEntry
    \/ EndSource
    \/ Return
    \/ NoNews
    \/ SummarizeAny
    \/ SendOne
    \/ Save

SpecMail == InitMail /\ [][NextMail]_vars

-----------------------------------------------------------------------------
(* Properties *)

ItemUid(i) == get_hash(collected[i].url)
ItemUids == {ItemUid(i) : i \in 1..Len(collected)}
TodayStr == [valid |-> TRUE, day |-> today]

\* A step of the entry loop that appended an item.
Appended == Len(collected') = Len(collected) + 1

\* A step of the entry loop (the entry it examined is entry').
Examined == pc = "entries" /\ entry' # NoEntry

\* The report is a usable digest: a string that is not empty.
Usable == report.none = FALSE /\ Len(report.text) > 0

\* C1, in every state: every collected item was absent from the pruned history,
\* is recorded in the history with today's date, and no two collected items
\* have the same URL.
C1_Items ==
    /\ \A i \in 1..Len(collected) :
         /\ ItemUid(i) \notin DOMAIN loaded
         /\ ItemUid(i) \in DOMAIN valid_history
         /\ valid_history[ItemUid(i)] = TodayStr
    /\ \A i, j \in 1..Len(collected) :
         collected[i].url = collected[j].url => i = j

\* C1, in every step of the entry loop: an item is appended only for an entry
\* whose identifier is absent from valid_history at that moment, the same step
\* records the identifier with today's date, and an entry whose identifier is
\* in valid_history appends nothing and leaves the history as it is.
C1_Step ==
    /\ Appended =>
         /\ Examined
         /\ collected' = Append(collected, collected'[Len(collected')])
         /\ collected'[Len(collected')].url = entry'.link
         /\ get_hash(entry'.link) \notin DOMAIN valid_history
         /\ DOMAIN valid_history' = DOMAIN valid_history \cup {get_hash(entry'.link)}
         /\ valid_history'[get_hash(entry'.link)] = [valid |-> TRUE, day |-> today]
         /\ \A k \in DOMAIN valid_history : valid_history'[k] = valid_history[k]
    /\ (Examined /\ "link" \in entry'.has
        /\ get_hash(entry'.link) \in DOMAIN valid_history) =>
         /\ collected' = collected
         /\ valid_history' = valid_history

\* C1: fetch_data collects an entry only if its identifier is absent from the
\* valid history when the entry is examined and records it with today's date
\* in the same iteration, so an entry already in the valid history yields no
\* item and no two items of a run have the same URL.
C1_Dedup == []C1_Items /\ [][C1_Step]_vars

\* C1 witness: fetch_data has returned two items or more, and has skipped an
\* entry whose identifier an earlier entry of the same run had recorded.
C1_Witness ==
    /\ pc = "returned"
    /\ Len(collected) >= 2
    /\ \E uid \in seenAgain : uid \notin DOMAIN loaded /\ uid \in ItemUids

\* C2: the mailer and save_history run only when items were collected and the
\* summarizer returned a usable digest, the summarizer runs only when items
\* were collected, and a run that ends otherwise has sent no mail and left the
\* history file as it was.
C2_Gate ==
    /\ (pc = "send" \/ attempted # <<>> \/ saved) => (Len(collected) > 0 /\ Usable)
    /\ summarized => Len(collected) > 0
    /\ (pc \in {"done", "crashed"} /\ ~(Len(collected) > 0 /\ Usable)) =>
         /\ attempted = <<>>
         /\ delivered = <<>>
         /\ ~saved
         /\ file = fileBefore

\* C2 witness: a run ended after the summarizer returned an empty digest for
\* collected items: nothing was sent, and the identifiers recorded in memory
\* are not in the file.
C2_Witness ==
    /\ pc = "done"
    /\ Len(collected) > 0
    /\ summarized
    /\ ~report.none
    /\ report.text = <<>>
    /\ file = fileBefore
    /\ \E uid \in DOMAIN valid_history :
         file.kind = "map" => uid \notin DOMAIN file.map

Stripped(rs) == [i \in 1..Len(rs) |-> strip_receiver(rs[i])]
NonBlank(r) == r # ""

\* C3: once the digest is usable, a delivery is attempted for every receiver
\* that is not blank, in order, whatever deliveries failed before it, and
\* save_history is executed after the last one.
C3_Independent ==
    /\ pc = "send" =>
         attempted = SelectSeq(Stripped(SubSeq(receivers, 1, rcv - 1)), NonBlank)
    /\ (pc = "done" /\ Len(collected) > 0 /\ Usable) =>
         /\ attempted = SelectSeq(Stripped(receivers), NonBlank)
         /\ Len(attempted) = Len(delivered) + Len(sendLog)
         /\ saved
         /\ file = [kind |-> "map", map |-> valid_history]

\* C3 witness: the delivery to the first of two receivers failed, the second
\* was attempted all the same, and the history was saved.
C3_Witness ==
    /\ pc = "done"
    /\ saved
    /\ Len(attempted) = 2
    /\ Len(sendLog) >= 1
    /\ sendLog[1] = attempted[1]

-----------------------------------------------------------------------------
(* Pruning, C4 *)

\* The history file the run started from is a mapping of identifiers to dates
\* that parse.
ReadableBefore ==
    /\ fileBefore.kind = "map"
    /\ \A k \in DOMAIN fileBefore.map : fileBefore.map[k].valid

\* The identifier is in the file the run started from, with a date that is
\* RetentionDays whole days old or older.
Expired(uid) ==
    /\ uid \in DOMAIN fileBefore.map
    /\ today - fileBefore.map[uid].day >= 3

\* C4: an entry of the file is kept exactly when it is less than 3 days old; an
\* expired one is absent from the history unless this run recorded it again;
\* and when fetch_data has returned, every URL whose expired identifier an
\* examined entry carried (so the run recorded it again) is among the collected
\* items, recorded with today's date.
C4_Claim ==
    (ReadableBefore /\ pc # "start") =>
      /\ \A k \in DOMAIN fileBefore.map :
           k \in DOMAIN loaded <=> today - fileBefore.map[k].day < 3
      /\ \A k \in DOMAIN fileBefore.map :
           (Expired(k) /\ k \in DOMAIN valid_history) => valid_history[k] = TodayStr
      /\ pc = "returned" =>
           \A u \in URLs :
             (Expired(get_hash(u)) /\ get_hash(u) \in DOMAIN valid_history) =>
               \E i \in 1..Len(collected) : collected[i].url = u

-----------------------------------------------------------------------------
(* Isolation of source failures, C5 *)

Sorted(s) == \A i, j \in 1..Len(s) : i < j => s[i] <= s[j]

\* What holds of the collected items whatever sources failed: none comes from
\* a failed source, and they are in source order.
C5_Items ==
    /\ Len(origin) = Len(collected)
    /\ \A i \in 1..Len(origin) : origin[i] \notin failed
    /\ Sorted(origin)
    /\ failed \subseteq 1..NumSources

\* A failed fetch leaves the items and the history as they are and the loop
\* goes on with the next source; nothing inside the loop ends the run.
C5_Step ==
    /\ failed' # failed /\ pc = "fetch" =>
         /\ failed' = failed \cup {src}
         /\ src' = src + 1
         /\ pc' = "fetch"
         /\ collected' = collected
         /\ valid_history' = valid_history
    /\ pc \in {"fetch", "entries"} => pc' \in {"fetch", "entries", "returned"}
    /\ Appended =>
         /\ SubSeq(collected', 1, Len(collected)) = collected
         /\ origin' = Append(origin, src)
         /\ src \notin failed

\* C5 as claimed: every failed fetch, by status or by transport error, is
\* logged, contributes no item, and leaves the items of the other sources in
\* source order.
C5_Claim ==
    /\ C5_Items
    /\ last.how \in {"error", "status"} => last.logged

\* C5 as amended: a transport error is logged, a status other than 200 is
\* skipped without a log line, neither is raised, a failed source contributes
\* no item and the other sources' items are collected in source order.
C5_Isolation ==
    /\ [](C5_Items /\ (last.how = "error" => last.logged)
                   /\ (last.how = "status" => ~last.logged))
    /\ [][C5_Step]_vars

\* C5 witness: fetch_data returned items of the first and of the third source
\* although the fetch of the second one failed.
C5_Witness ==
    /\ pc = "returned"
    /\ failed = {2}
    /\ \E i, j \in 1..Len(origin) : origin[i] = 1 /\ origin[j] = 3

-----------------------------------------------------------------------------
(* Loading a corrupt history, C6 *)

\* C6: loading and pruning the history never ends the run: a run only ever
\* ends with an error after fetch_data has returned.
C6_Claim == pc = "crashed" => summarized

-----------------------------------------------------------------------------
(* The fallback of the summary text, C7 *)

NewItem == collected'[Len(collected')]

\* An entry with a link and a title whose identifier is not yet in the history
\* always yields an item, whatever text attributes it has.
C7_NoRaise ==
    (Examined /\ {"link", "title"} \subseteq entry'.has
     /\ get_hash(entry'.link) \notin DOMAIN valid_history) => Appended

\* C7 as claimed: the summary is made of the summary attribute if present, else
\* of the description, else of the first content block, else it is empty.
C7_Claim ==
    [][/\ C7_NoRaise
       /\ Appended =>
            NewItem.summary =
              IF "summary" \in entry'.has THEN <<"s", "...">>
              ELSE IF "description" \in entry'.has THEN <<"d", "...">>
              ELSE IF "content" \in entry'.has THEN <<"c", "...">>
              ELSE <<>>]_vars

\* C7 as amended: the summary is made of the first content block if the entry
\* has content, else of the summary attribute, else of the description, else
\* it is empty; no combination of these attributes raises.
C7_Fallback ==
    [][/\ C7_NoRaise
       /\ Appended =>
            NewItem.summary =
              IF "content" \in entry'.has THEN <<"c", "...">>
              ELSE IF "summary" \in entry'.has THEN <<"s", "...">>
              ELSE IF "description" \in entry'.has THEN <<"d", "...">>
              ELSE <<>>]_vars

\* C7 witness: an entry with both a summary and content was collected, and the
\* summary of its item is made of the content.
C7_Witness ==
    /\ pc = "entries"
    /\ {"summary", "content"} \subseteq entry.has
    /\ Len(collected) > 0
    /\ collected[Len(collected)].url = entry.link
    /\ collected[Len(collected)].summary = <<"c", "...">>

-----------------------------------------------------------------------------
(* The cap per source, C8 *)

Cap(s) == IF RSS_SOURCES[s] = "HARDCORE_AI" THEN 3 ELSE 2
Contribution(s) == Cardinality({i \in 1..Len(origin) : origin[i] = s})

\* The loop reached every one of the first Cap entries of the feed of the
\* source that just ended, each of them had a link, and none was skipped as
\* already seen: their URLs are distinct and none was in the history.
AllFresh ==
    /\ last.examined = Min(Cap(last.src), last.len)
    /\ ~last.skipped
    /\ last.how = "raised" => "link" \in entry.has

\* C8: when a source's feed has been walked, the loop examined no entry past
\* the cap, the source contributed at most Cap items, and exactly
\* min(Cap, len(feed.entries)) when none of the first Cap entries was in the
\* history and their URLs are distinct.
C8_Claim ==
    (pc = "fetch" /\ last.how \in {"ok", "raised"}) =>
      /\ last.examined <= Cap(last.src)
      /\ Contribution(last.src) <= Cap(last.src)
      /\ AllFresh => Contribution(last.src) = Min(Cap(last.src), last.len)

-----------------------------------------------------------------------------
(* The date saved for an identifier seen again, C9 *)

\* C9: when a run has saved the history, every identifier that the run found
\* already present in the valid history is saved with the date of this run.
C9_Claim ==
    saved => \A uid \in seenAgain :
               uid \in DOMAIN file.map /\ file.map[uid] = TodayStr

-----------------------------------------------------------------------------
(* Recorded identifiers and collected items, C10 *)

\* C10: when fetch_data returns, the identifiers it added to the pruned
\* history are exactly the identifiers of the collected items, one each.
C10_Claim ==
    pc = "returned" =>
      /\ DOMAIN valid_history \ DOMAIN loaded = ItemUids
      /\ Cardinality(ItemUids) = Len(collected)

====
